---- MODULE Spec2Model ----
(***************************************************************************)
(* A model of the diff tool: the line diff builder                        *)
(* (FileDiff::from_contents), the side-by-side aligner (to_side_by_side)  *)
(* and git change discovery (git_diff_files, in its two copies).          *)
(***************************************************************************)
EXTENDS Integers, Sequences, FiniteSets, TLC

\* ------------------------------------------------------------------ bounds
\* Most lines in a text handed to from_contents.
MaxLines == 3
\* Most DiffLines in a sequence handed to to_side_by_side.
MaxLen == 5
\* Most paths the changed-file listing names.
MaxChanged == 2
\* Most paths the untracked listing names.
MaxUntracked == 2
\* Most path segments, over all the paths handed to build_file_tree together.
MaxSegs == 4
\* The separator path.split('/') splits on, as a byte.
Slash == 47
\* Most file pairs handed to from_file_pairs, most diffs handed to from_diffs.
MaxPairs == 2
\* Most path segments, over all the diffs of a viewer whose tree panel is shown.
MaxPanelSegs == 3
\* viewer.rs: the panel width limits, its first width and the handle's width, in px
MIN_PANEL_WIDTH == 100
MAX_PANEL_WIDTH == 600
DEFAULT_PANEL_WIDTH == 220
DRAG_HANDLE_WIDTH == 4

\* The line contents texts are made of.
Alphabet == {"a", "b"}

VARIABLES
    pc,           \* position of the running function
    old_content,  \* from_contents: the old text, as TextDiff::from_lines tokenizes it
    new_content,  \* from_contents: the new text
    changes,      \* the edit script diff.iter_all_changes() yields
    lines,        \* Vec<DiffLine>: FileDiff.lines, the input of to_side_by_side
    pos,          \* to_side_by_side: lines consumed by the for loop so far
    delete_buf,   \* to_side_by_side: pending Delete lines
    result,       \* to_side_by_side: the rows pushed so far
    unit,         \* which copy of git_diff_files runs: "git.rs" or "main.rs"
    staged,       \* git_diff_files: its argument
    changed_env,  \* the paths git diff --name-only [--cached] lists in this repository
    untracked_env,\* the paths git ls-files --others --exclude-standard lists
    files,        \* git_diff_files: the parsed changed-file listing
    untracked,    \* git_diff_files: the parsed untracked listing
    idx,          \* git_diff_files: entries of the running for loop already handled
    diffs,        \* git_diff_files: Vec<FileDiff>
    change_set,   \* per entry of diffs, the texts handed to from_contents
    stores,       \* per entry of diffs, what the repository held for that path
    queries,      \* the commands run so far, each with its outcome
    ret,          \* what git_diff_files returned
    file_pairs,   \* from_file_pairs: the (old, new) paths asked for
    fs,           \* what fs::read_to_string finds at each path
    selected_index, \* DiffViewer.selected_index
    view_mode,    \* DiffViewer.view_mode
    panel_mode,   \* DiffViewer.panel_mode
    collapsed_dirs, \* DiffViewer.collapsed_dirs
    panel_width,  \* DiffViewer.panel_width, in pixels
    root,         \* build_file_tree: the tree built so far
    elements      \* what the last render put in the file panel

diff_vars == <<old_content, new_content, changes, lines, pos, delete_buf, result>>

git_vars == <<unit, staged, changed_env, untracked_env, files, untracked, idx, diffs,
              change_set, stores, queries, ret>>

view_vars == <<file_pairs, fs, selected_index, view_mode, panel_mode, collapsed_dirs,
               panel_width, root, elements>>

vars == <<pc, diff_vars, git_vars, view_vars>>

\* ------------------------------------------------------------- Option<T>
None == <<>>
Some(v) == <<v>>
IsSome(o) == Len(o) = 1
IsNone(o) == Len(o) = 0
Unwrap(o) == o[1]

\* ------------------------------------------------------------------ texts
\* A text is the sequence of its lines; TextDiff::from_lines keeps each line's
\* terminator, so only the last line of a text may lack its "\n".
Words(n) == UNION {[1..k -> Alphabet] : k \in 0..n}

TextOf(w, terminated) ==
    [i \in 1..Len(w) |-> [text |-> w[i], nl |-> (i < Len(w)) \/ terminated]]

TextsUpTo(n) == {TextOf(w, t) : w \in Words(n), t \in BOOLEAN}

Texts == TextsUpTo(MaxLines)

Tags == {"Equal", "Delete", "Insert"}

\* ------------------------------------------- the comparison primitive
RECURSIVE EditScripts(_, _)
\* Every edit script turning old into new: Delete and Equal entries spell old,
\* Insert and Equal entries spell new, Equal only where the two lines are equal.
EditScripts(old, new) ==
    IF Len(old) = 0 /\ Len(new) = 0 THEN {<<>>}
    ELSE
        (IF Len(old) > 0
         THEN {<<[tag |-> "Delete", value |-> Head(old)]>> \o s :
                   s \in EditScripts(Tail(old), new)}
         ELSE {})
        \cup
        (IF Len(new) > 0
         THEN {<<[tag |-> "Insert", value |-> Head(new)]>> \o s :
                   s \in EditScripts(old, Tail(new))}
         ELSE {})
        \cup
        (IF Len(old) > 0 /\ Len(new) > 0 /\ Head(old) = Head(new)
         THEN {<<[tag |-> "Equal", value |-> Head(old)]>> \o s :
                   s \in EditScripts(Tail(old), Tail(new))}
         ELSE {})

RECURSIVE common_prefix_len(_, _)
common_prefix_len(old, new) ==
    IF Len(old) > 0 /\ Len(new) > 0 /\ Head(old) = Head(new)
    THEN 1 + common_prefix_len(Tail(old), Tail(new))
    ELSE 0

Reverse(s) == [i \in 1..Len(s) |-> s[Len(s) + 1 - i]]

common_suffix_len(old, new) == common_prefix_len(Reverse(old), Reverse(new))

\* TextDiff::from_lines(old, new).iter_all_changes(): the primitive is a library;
\* it is modelled by what every run of it yields: an edit script of old into new
\* whose common prefix, and common suffix of what remains, are Equal entries.
iter_all_changes(old, new) ==
    LET p == common_prefix_len(old, new)
        s == common_suffix_len(SubSeq(old, p + 1, Len(old)), SubSeq(new, p + 1, Len(new)))
    IN {c \in EditScripts(old, new) :
            /\ \A i \in 1..p : c[i].tag = "Equal"
            /\ \A i \in (Len(c) - s + 1)..Len(c) : c[i].tag = "Equal"}

\* ------------------------------------------------- FileDiff::from_contents
\* number_change with one counter shared by both sides: an Insert advances the
\* old line counter too.
number_change_shared(tag, old_lineno, new_lineno) ==
    CASE tag = "Equal" ->
            [old_lineno |-> old_lineno + 1, new_lineno |-> new_lineno + 1,
             old_ln |-> Some(old_lineno + 1), new_ln |-> Some(new_lineno + 1)]
      [] tag = "Delete" ->
            [old_lineno |-> old_lineno + 1, new_lineno |-> new_lineno + 1,
             old_ln |-> Some(old_lineno + 1), new_ln |-> None]
      [] tag = "Insert" ->
            [old_lineno |-> old_lineno + 1, new_lineno |-> new_lineno + 1,
             old_ln |-> None, new_ln |-> Some(new_lineno + 1)]

\* number_change numbering before it increments: the first line is line 0.
number_change_zero_based(tag, old_lineno, new_lineno) ==
    CASE tag = "Equal" ->
            [old_lineno |-> old_lineno + 1, new_lineno |-> new_lineno + 1,
             old_ln |-> Some(old_lineno), new_ln |-> Some(new_lineno)]
      [] tag = "Delete" ->
            [old_lineno |-> old_lineno + 1, new_lineno |-> new_lineno,
             old_ln |-> Some(old_lineno), new_ln |-> None]
      [] tag = "Insert" ->
            [old_lineno |-> old_lineno, new_lineno |-> new_lineno + 1,
             old_ln |-> None, new_ln |-> Some(new_lineno)]

\* number_change with an Equal line advancing only the old counter.
number_change_equal_old_only(tag, old_lineno, new_lineno) ==
    CASE tag = "Equal" ->
            [old_lineno |-> old_lineno + 1, new_lineno |-> new_lineno,
             old_ln |-> Some(old_lineno + 1), new_ln |-> Some(new_lineno + 1)]
      [] tag = "Delete" ->
            [old_lineno |-> old_lineno + 1, new_lineno |-> new_lineno,
             old_ln |-> Some(old_lineno + 1), new_ln |-> None]
      [] tag = "Insert" ->
            [old_lineno |-> old_lineno, new_lineno |-> new_lineno + 1,
             old_ln |-> None, new_ln |-> Some(new_lineno + 1)]

\* The match on the change's tag: the counters after the change and the two
\* line numbers of the DiffLine.
number_change(tag, old_lineno, new_lineno) ==
    CASE tag = "Equal" ->
            [old_lineno |-> old_lineno + 1, new_lineno |-> new_lineno + 1,
             old_ln |-> Some(old_lineno + 1), new_ln |-> Some(new_lineno + 1)]
      [] tag = "Delete" ->
            [old_lineno |-> old_lineno + 1, new_lineno |-> new_lineno,
             old_ln |-> Some(old_lineno + 1), new_ln |-> None]
      [] tag = "Insert" ->
            [old_lineno |-> old_lineno, new_lineno |-> new_lineno + 1,
             old_ln |-> None, new_ln |-> Some(new_lineno + 1)]

\* change.to_string_lossy().trim_end_matches('\n'): the line without its terminator.
trim_end_newline(value) == value.text

RECURSIVE from_contents_loop(_, _, _, _)
from_contents_loop(script, old_lineno, new_lineno, acc) ==
    IF Len(script) = 0 THEN acc
    ELSE
        LET change == Head(script)
            n == number_change(change.tag, old_lineno, new_lineno)
        IN from_contents_loop(
               Tail(script), n.old_lineno, n.new_lineno,
               Append(acc, [tag |-> change.tag,
                            old_lineno |-> n.old_ln,
                            new_lineno |-> n.new_ln,
                            content |-> trim_end_newline(change.value)]))

\* The lines of the FileDiff built from the edit script, counters starting at 0.
from_contents(script) == from_contents_loop(script, 0, 0, <<>>)

\* --------------------------------------------------------- to_side_by_side
\* drain pushing its rows with the line on neither side.
drain_blank(buf) == [i \in 1..Len(buf) |-> [left |-> None, right |-> None]]

\* drain giving the pending lines newest first.
drain_reversed(buf) ==
    [i \in 1..Len(buf) |-> [left |-> Some(buf[Len(buf) + 1 - i]), right |-> None]]

\* delete_buf.drain(..): one left-only row per pending line, in queue order.
drain(buf) == [i \in 1..Len(buf) |-> [left |-> Some(buf[i]), right |-> None]]

\* sbs_step pairing an Insert with the newest pending Delete (delete_buf.pop()).
sbs_step_lifo(st, line) ==
    CASE line.tag = "Delete" ->
            [result |-> st.result, delete_buf |-> Append(st.delete_buf, line)]
      [] line.tag = "Insert" ->
            IF Len(st.delete_buf) > 0
            THEN [result |-> Append(st.result,
                                    [left |-> Some(st.delete_buf[Len(st.delete_buf)]),
                                     right |-> Some(line)]),
                  delete_buf |-> SubSeq(st.delete_buf, 1, Len(st.delete_buf) - 1)]
            ELSE [result |-> Append(st.result, [left |-> None, right |-> Some(line)]),
                  delete_buf |-> st.delete_buf]
      [] line.tag = "Equal" ->
            [result |-> (st.result \o drain(st.delete_buf))
                            \o <<[left |-> Some(line), right |-> Some(line)]>>,
             delete_buf |-> <<>>]

\* sbs_step clearing delete_buf on an Equal line without emitting what is pending.
sbs_step_clear(st, line) ==
    CASE line.tag = "Delete" ->
            [result |-> st.result, delete_buf |-> Append(st.delete_buf, line)]
      [] line.tag = "Insert" ->
            IF Len(st.delete_buf) > 0
            THEN [result |-> Append(st.result,
                                    [left |-> Some(Head(st.delete_buf)),
                                     right |-> Some(line)]),
                  delete_buf |-> Tail(st.delete_buf)]
            ELSE [result |-> Append(st.result, [left |-> None, right |-> Some(line)]),
                  delete_buf |-> st.delete_buf]
      [] line.tag = "Equal" ->
            [result |-> Append(st.result, [left |-> Some(line), right |-> Some(line)]),
             delete_buf |-> <<>>]

\* sbs_step emitting the row of an Equal line before the pending rows.
sbs_step_equal_first(st, line) ==
    CASE line.tag = "Delete" ->
            [result |-> st.result, delete_buf |-> Append(st.delete_buf, line)]
      [] line.tag = "Insert" ->
            IF Len(st.delete_buf) > 0
            THEN [result |-> Append(st.result,
                                    [left |-> Some(Head(st.delete_buf)),
                                     right |-> Some(line)]),
                  delete_buf |-> Tail(st.delete_buf)]
            ELSE [result |-> Append(st.result, [left |-> None, right |-> Some(line)]),
                  delete_buf |-> st.delete_buf]
      [] line.tag = "Equal" ->
            [result |-> (st.result \o <<[left |-> Some(line), right |-> Some(line)]>>)
                            \o drain(st.delete_buf),
             delete_buf |-> <<>>]

\* sbs_step keeping the Insert lines that find nothing pending out of the result.
sbs_step_skip_unpaired(st, line) ==
    CASE line.tag = "Delete" ->
            [result |-> st.result, delete_buf |-> Append(st.delete_buf, line)]
      [] line.tag = "Insert" ->
            IF Len(st.delete_buf) > 0
            THEN [result |-> Append(st.result,
                                    [left |-> Some(Head(st.delete_buf)),
                                     right |-> Some(line)]),
                  delete_buf |-> Tail(st.delete_buf)]
            ELSE [result |-> st.result, delete_buf |-> st.delete_buf]
      [] line.tag = "Equal" ->
            [result |-> (st.result \o drain(st.delete_buf))
                            \o <<[left |-> Some(line), right |-> Some(line)]>>,
             delete_buf |-> <<>>]

\* sbs_step leaving the pending lines in delete_buf on an Equal line.
sbs_step_keep_pending(st, line) ==
    CASE line.tag = "Delete" ->
            [result |-> st.result, delete_buf |-> Append(st.delete_buf, line)]
      [] line.tag = "Insert" ->
            IF Len(st.delete_buf) > 0
            THEN [result |-> Append(st.result,
                                    [left |-> Some(Head(st.delete_buf)),
                                     right |-> Some(line)]),
                  delete_buf |-> Tail(st.delete_buf)]
            ELSE [result |-> Append(st.result, [left |-> None, right |-> Some(line)]),
                  delete_buf |-> st.delete_buf]
      [] line.tag = "Equal" ->
            [result |-> Append(st.result, [left |-> Some(line), right |-> Some(line)]),
             delete_buf |-> st.delete_buf]

\* One iteration of the for loop: the match on line.tag.
sbs_step(st, line) ==
    CASE line.tag = "Delete" ->
            [result |-> st.result, delete_buf |-> Append(st.delete_buf, line)]
      [] line.tag = "Insert" ->
            IF Len(st.delete_buf) > 0
            THEN [result |-> Append(st.result,
                                    [left |-> Some(Head(st.delete_buf)),
                                     right |-> Some(line)]),
                  delete_buf |-> Tail(st.delete_buf)]
            ELSE [result |-> Append(st.result, [left |-> None, right |-> Some(line)]),
                  delete_buf |-> st.delete_buf]
      [] line.tag = "Equal" ->
            [result |-> (st.result \o drain(st.delete_buf))
                            \o <<[left |-> Some(line), right |-> Some(line)]>>,
             delete_buf |-> <<>>]

\* The end of the function without the drain: result as the loop left it.
sbs_finish_no_drain(st) == [result |-> st.result, delete_buf |-> st.delete_buf]

\* The drain after the loop.
sbs_finish(st) == [result |-> st.result \o drain(st.delete_buf), delete_buf |-> <<>>]

RECURSIVE sbs_loop(_, _)
sbs_loop(st, ls) == IF Len(ls) = 0 THEN st ELSE sbs_loop(sbs_step(st, Head(ls)), Tail(ls))

\* The whole function.
to_side_by_side(ls) == sbs_finish(sbs_loop([result |-> <<>>, delete_buf |-> <<>>], ls)).result

\* No viewer is built.
ViewIdle ==
    /\ file_pairs = <<>>
    /\ fs = <<>>
    /\ selected_index = None
    /\ view_mode = "Unified"
    /\ panel_mode = "List"
    /\ collapsed_dirs = {}
    /\ panel_width = 0
    /\ root = <<>>
    /\ elements = <<>>

\* No discovery runs.
GitIdle ==
    /\ unit = "git.rs"
    /\ staged = FALSE
    /\ changed_env = <<>>
    /\ untracked_env = <<>>
    /\ files = <<>>
    /\ untracked = <<>>
    /\ idx = 0
    /\ diffs = <<>>
    /\ change_set = <<>>
    /\ stores = <<>>
    /\ queries = <<>>
    /\ ret = [kind |-> "Running", msg |-> "", arg |-> <<>>]

\* =================================================== the line diff builder
\* SpecBuild: two texts are compared and the FileDiff is built.
InitBuild ==
    /\ pc = "from_contents"
    /\ old_content \in Texts
    /\ new_content \in Texts
    /\ changes = <<>>
    /\ lines = <<>>
    /\ pos = 0
    /\ delete_buf = <<>>
    /\ result = <<>>
    /\ GitIdle
    /\ ViewIdle

\* let diff = TextDiff::from_lines(old_content, new_content)
TextDiff_from_lines ==
    /\ pc = "from_contents"
    /\ changes' \in iter_all_changes(old_content, new_content)
    /\ pc' = "iter_all_changes"
    /\ UNCHANGED <<old_content, new_content, lines, pos, delete_buf, result>>
    /\ UNCHANGED <<git_vars, view_vars>>

\* the for loop over diff.iter_all_changes() and the construction of Self
FromContents ==
    /\ pc = "iter_all_changes"
    /\ lines' = from_contents(changes)
    /\ pc' = "built"
    /\ UNCHANGED <<old_content, new_content, changes, pos, delete_buf, result>>
    /\ UNCHANGED <<git_vars, view_vars>>

NextBuild == TextDiff_from_lines \/ FromContents

SpecBuild == InitBuild /\ [][NextBuild]_vars

\* ======================================================= the aligner
\* SpecAlign: to_side_by_side runs, one loop iteration per step, on any DiffLine
\* sequence numbered as from_contents numbers it.
TagScripts(n) ==
    UNION {[1..k -> {[tag |-> t, value |-> [text |-> "a", nl |-> TRUE]] : t \in Tags}] :
               k \in 0..n}

InitAlign ==
    /\ pc = "loop"
    /\ old_content = <<>>
    /\ new_content = <<>>
    /\ changes \in TagScripts(MaxLen)
    /\ lines = from_contents(changes)
    /\ pos = 0
    /\ delete_buf = <<>>
    /\ result = <<>>
    /\ GitIdle
    /\ ViewIdle

SbsIter(tag) ==
    /\ pc = "loop"
    /\ pos < Len(lines)
    /\ lines[pos + 1].tag = tag
    /\ LET st == sbs_step([result |-> result, delete_buf |-> delete_buf], lines[pos + 1])
       IN /\ result' = st.result
          /\ delete_buf' = st.delete_buf
    /\ pos' = pos + 1
    /\ UNCHANGED <<pc, old_content, new_content, changes, lines>>
    /\ UNCHANGED <<git_vars, view_vars>>

SbsDelete == SbsIter("Delete")
SbsInsert == SbsIter("Insert")
SbsEqual == SbsIter("Equal")

\* the loop is over: drain what is pending and return result
SbsReturn ==
    /\ pc = "loop"
    /\ pos = Len(lines)
    /\ LET st == sbs_finish([result |-> result, delete_buf |-> delete_buf])
       IN /\ result' = st.result
          /\ delete_buf' = st.delete_buf
    /\ pc' = "returned"
    /\ UNCHANGED <<old_content, new_content, changes, lines, pos>>
    /\ UNCHANGED <<git_vars, view_vars>>

NextAlign == SbsDelete \/ SbsInsert \/ SbsEqual \/ SbsReturn

SpecAlign == InitAlign /\ [][NextAlign]_vars

\* ===================================================== change discovery
\* SpecGit: git_diff_files(staged) runs against a repository, one command per step.
\* unit tells which copy of the function runs: src/git.rs or src/main.rs.

\* The texts a stored file holds.
FileTexts == {<<>>, <<[text |-> "a", nl |-> TRUE]>>}

\* What a store holds for a path: Some(text), or None (no such entry, unreadable).
Stored == {None} \cup {Some(t) : t \in FileTexts}

ChangedPaths == {[kind |-> "tracked", n |-> i] : i \in 1..MaxChanged}
UntrackedPaths == {[kind |-> "untracked", n |-> i] : i \in 1..MaxUntracked}

\* The listings of a set of paths: each path at most once, in any order.
Listings(S) ==
    {l \in UNION {[1..k -> S] : k \in 0..Cardinality(S)} :
         \A i, j \in 1..Len(l) : i /= j => l[i] /= l[j]}

\* How one Command::output() call can end.
Outcomes == {"spawn_error", "nonzero", "success"}

Running == [kind |-> "Running", msg |-> "", arg |-> <<>>]
Ok == [kind |-> "Ok", msg |-> "", arg |-> <<>>]
Err(msg, arg) == [kind |-> "Err", msg |-> msg, arg |-> arg]

\* String::from_utf8_lossy(&output.stderr) of a command that exited non-zero.
Stderr(cmd) == <<"stderr", cmd>>

\* diffs.push pushing at the front.
push_front(v, x) == <<x>> \o v

\* Vec::push
push(v, x) == Append(v, x)

\* String::from_utf8_lossy(&output.stdout) of git show :<file>: the indexed text,
\* nothing when the index has no such path.
show_stdout(index) == IF IsSome(index) THEN Unwrap(index) ELSE <<>>

\* old_content: stdout of git show :<file> when it exits 0, else String::new().
\* ref_prefix is "" in both modes, so this is the indexed text whatever staged is.
show_old_content(is_staged, head, index) ==
    IF IsSome(index) THEN show_stdout(index) ELSE <<>>

\* new_content: stdout of git show :<file> when staged, else
\* fs::read_to_string(&file_path).unwrap_or_default().
show_new_content(is_staged, index, worktree) ==
    IF is_staged THEN show_stdout(index)
    ELSE IF IsSome(worktree) THEN Unwrap(worktree) ELSE <<>>

\* The last check of git.rs answering Ok whatever diffs holds.
return_diffs_unchecked(is_staged, ds) == Ok

\* if diffs.is_empty() { return Err("No {kind} changes found") }  Ok(diffs)
return_diffs(is_staged, ds) ==
    IF Len(ds) = 0
    THEN Err(IF is_staged THEN "No staged changes found" ELSE "No unstaged changes found",
             <<>>)
    ELSE Ok

InitGit ==
    /\ pc = "git_toplevel"
    /\ old_content = <<>>
    /\ new_content = <<>>
    /\ changes = <<>>
    /\ lines = <<>>
    /\ pos = 0
    /\ delete_buf = <<>>
    /\ result = <<>>
    /\ unit \in {"git.rs", "main.rs"}
    /\ staged \in BOOLEAN
    /\ changed_env \in Listings(ChangedPaths)
    /\ untracked_env \in Listings(UntrackedPaths)
    /\ files = <<>>
    /\ untracked = <<>>
    /\ idx = 0
    /\ diffs = <<>>
    /\ change_set = <<>>
    /\ stores = <<>>
    /\ queries = <<>>
    /\ ret = Running
    /\ ViewIdle

Return(r) ==
    /\ ret' = r
    /\ pc' = "done"

\* git_toplevel taking whatever rev-parse printed, its exit status unread.
GitToplevel_unchecked ==
    /\ pc = "git_toplevel"
    /\ \E out \in Outcomes :
        /\ queries' = Append(queries, [cmd |-> "rev-parse --show-toplevel", out |-> out])
        /\ CASE out = "spawn_error" -> Return(Err("Failed to run git", <<"io error">>))
             [] out = "nonzero" -> pc' = "diff_name_only" /\ ret' = ret
             [] out = "success" -> pc' = "diff_name_only" /\ ret' = ret
    /\ UNCHANGED <<view_vars, diff_vars, unit, staged, changed_env, untracked_env, files, untracked,
                   idx, diffs, change_set, stores>>

\* let toplevel = git_toplevel()?;
GitToplevel ==
    /\ pc = "git_toplevel"
    /\ \E out \in Outcomes :
        /\ queries' = Append(queries, [cmd |-> "rev-parse --show-toplevel", out |-> out])
        /\ CASE out = "spawn_error" -> Return(Err("Failed to run git", <<"io error">>))
             [] out = "nonzero" -> Return(Err("Not a git repository", <<>>))
             [] out = "success" -> pc' = "diff_name_only" /\ ret' = ret
    /\ UNCHANGED <<view_vars, diff_vars, unit, staged, changed_env, untracked_env, files, untracked,
                   idx, diffs, change_set, stores>>

\* git.rs: git diff --name-only [--cached], and the parse of its stdout
DiffNameOnly ==
    /\ pc = "diff_name_only"
    /\ unit = "git.rs"
    /\ \E out \in Outcomes :
        /\ queries' = Append(queries, [cmd |-> "diff --name-only", out |-> out])
        /\ CASE out = "spawn_error" ->
                    Return(Err("Failed to run git diff", <<"io error">>)) /\ files' = files
             [] out = "nonzero" ->
                    Return(Err("git diff failed", Stderr("diff --name-only")))
                    /\ files' = files
             [] out = "success" ->
                    files' = changed_env /\ pc' = "show_loop" /\ ret' = ret
    /\ UNCHANGED <<view_vars, diff_vars, unit, staged, changed_env, untracked_env, untracked,
                   idx, diffs, change_set, stores>>

\* main.rs: git diff --name-only [--cached], the parse of its stdout, and the
\* return of "No {kind} changes found" when no file is listed
MainDiffNameOnly ==
    /\ pc = "diff_name_only"
    /\ unit = "main.rs"
    /\ \E out \in Outcomes :
        /\ queries' = Append(queries, [cmd |-> "diff --name-only", out |-> out])
        /\ CASE out = "spawn_error" ->
                    Return(Err("Failed to run git diff", <<"io error">>)) /\ files' = files
             [] out = "nonzero" ->
                    Return(Err("git diff failed", Stderr("diff --name-only")))
                    /\ files' = files
             [] out = "success" ->
                    /\ files' = changed_env
                    /\ IF Len(changed_env) = 0
                       THEN Return(Err(IF staged THEN "No staged changes found"
                                       ELSE "No unstaged changes found", <<>>))
                       ELSE pc' = "show_loop" /\ ret' = ret
    /\ UNCHANGED <<view_vars, diff_vars, unit, staged, changed_env, untracked_env, untracked,
                   idx, diffs, change_set, stores>>

\* What the repository can hold for a path the changed-file listing names: the
\* two sides git compared differ. A store the run does not consult is left None.
ListedStores(is_staged) ==
    IF is_staged
    THEN {st \in [head : Stored, index : Stored, worktree : {None}] : st.head /= st.index}
    ELSE {st \in [head : {None}, index : Stored, worktree : Stored] :
              st.index /= st.worktree}

\* One iteration of  for file in files  (the same code in git.rs and main.rs):
\* git show :<file> for the old text; when staged git show :<file> again for the
\* new text, else a read of the working-tree file; diffs.push(from_contents(..)).
ShowFile ==
    /\ pc = "show_loop"
    /\ idx < Len(files)
    /\ LET file == files[idx + 1] IN
       \E st \in ListedStores(staged), spawned \in BOOLEAN, spawned2 \in BOOLEAN :
        LET old == show_old_content(staged, st.head, st.index)
            new == show_new_content(staged, st.index, st.worktree)
            show == [cmd |-> "show", out |-> IF ~spawned THEN "spawn_error"
                                             ELSE IF IsSome(st.index) THEN "success"
                                             ELSE "nonzero"]
            show2 == [cmd |-> "show", out |-> IF ~spawned2 THEN "spawn_error"
                                              ELSE IF IsSome(st.index) THEN "success"
                                              ELSE "nonzero"]
        IN
        IF ~spawned
        THEN /\ spawned2
             /\ queries' = Append(queries, show)
             /\ Return(Err("Failed to get index version of", <<file>>))
             /\ UNCHANGED <<idx, diffs, change_set, stores>>
        ELSE IF staged /\ ~spawned2
        THEN /\ queries' = queries \o <<show, show2>>
             /\ Return(Err("Failed to get staged version of", <<file>>))
             /\ UNCHANGED <<idx, diffs, change_set, stores>>
        ELSE /\ staged \/ spawned2
             /\ queries' = (IF staged THEN queries \o <<show, show2>>
                            ELSE Append(queries, show))
             /\ \E script \in iter_all_changes(old, new) :
                    diffs' = push(diffs, [old_path |-> file, new_path |-> file,
                                          lines |-> from_contents(script)])
             /\ change_set' = Append(change_set, [path |-> file, old_content |-> old,
                                                  new_content |-> new])
             /\ stores' = Append(stores, [path |-> file] @@ st)
             /\ idx' = idx + 1
             /\ UNCHANGED <<pc, ret>>
    /\ UNCHANGED <<view_vars, diff_vars, unit, staged, changed_env, untracked_env, files, untracked>>

\* main.rs: the loop is over: Ok(diffs)
MainReturn ==
    /\ pc = "show_loop"
    /\ unit = "main.rs"
    /\ idx = Len(files)
    /\ Return(Ok)
    /\ UNCHANGED <<view_vars, diff_vars, unit, staged, changed_env, untracked_env, files, untracked,
                   idx, diffs, change_set, stores, queries>>

\* git.rs, if !staged: git ls-files --others --exclude-standard; its stdout is
\* parsed when it exits 0 and the block is skipped when it does not
LsFilesOthers ==
    /\ pc = "show_loop"
    /\ unit = "git.rs"
    /\ idx = Len(files)
    /\ ~staged
    /\ \E out \in Outcomes :
        /\ queries' = Append(queries, [cmd |-> "ls-files --others", out |-> out])
        /\ CASE out = "spawn_error" ->
                    /\ Return(Err("Failed to list untracked files", <<"io error">>))
                    /\ UNCHANGED <<untracked, idx>>
             [] out = "nonzero" ->
                    /\ pc' = "check_empty"
                    /\ UNCHANGED <<untracked, idx, ret>>
             [] out = "success" ->
                    /\ untracked' = untracked_env
                    /\ idx' = 0
                    /\ pc' = "untracked_loop"
                    /\ ret' = ret
    /\ UNCHANGED <<view_vars, diff_vars, unit, staged, changed_env, untracked_env, files,
                   diffs, change_set, stores>>

\* git.rs: one iteration of the loop over the untracked listing: read the file,
\* diffs.push(from_contents(file, file, "", new_content))
ReadUntracked ==
    /\ pc = "untracked_loop"
    /\ idx < Len(untracked)
    /\ LET file == untracked[idx + 1] IN
       \E worktree \in Stored :
        LET new == IF IsSome(worktree) THEN Unwrap(worktree) ELSE <<>> IN
        /\ \E script \in iter_all_changes(<<>>, new) :
               diffs' = push(diffs, [old_path |-> file, new_path |-> file,
                                     lines |-> from_contents(script)])
        /\ change_set' = Append(change_set, [path |-> file, old_content |-> <<>>,
                                             new_content |-> new])
        /\ stores' = Append(stores, [path |-> file, head |-> None, index |-> None,
                                     worktree |-> worktree])
    /\ idx' = idx + 1
    /\ UNCHANGED <<pc, view_vars, diff_vars, unit, staged, changed_env, untracked_env, files,
                   untracked, queries, ret>>

\* git.rs: the end of the function: the diffs.is_empty() check and Ok(diffs)
CheckEmpty ==
    /\ unit = "git.rs"
    /\ \/ pc = "check_empty"
       \/ pc = "untracked_loop" /\ idx = Len(untracked)
       \/ pc = "show_loop" /\ idx = Len(files) /\ staged
    /\ Return(return_diffs(staged, diffs))
    /\ UNCHANGED <<view_vars, diff_vars, unit, staged, changed_env, untracked_env, files, untracked,
                   idx, diffs, change_set, stores, queries>>

NextGit ==
    \/ GitToplevel
    \/ DiffNameOnly
    \/ MainDiffNameOnly
    \/ ShowFile
    \/ MainReturn
    \/ LsFilesOthers
    \/ ReadUntracked
    \/ CheckEmpty

SpecGit == InitGit /\ [][NextGit]_vars

\* ======================================================= the path tree
\* Strings are sequences of bytes, so that split and the order of String keys in
\* a BTreeMap are computed and not assumed. "a" is <<97>>, "b" is <<98>>.
SegNames == {<<>>, <<97>>, <<98>>, <<97, 98>>}

RECURSIVE str_lt(_, _)
\* String's Ord: byte-wise lexicographic, a proper prefix first.
str_lt(a, b) ==
    IF Len(b) = 0 THEN FALSE
    ELSE IF Len(a) = 0 THEN TRUE
    ELSE IF Head(a) /= Head(b) THEN Head(a) < Head(b)
    ELSE str_lt(Tail(a), Tail(b))

RECURSIVE split(_)
\* path.split('/').collect(): the pieces between separators, empty ones included;
\* a string without separator, the empty string too, is one piece.
split(path) ==
    IF \E k \in 1..Len(path) : path[k] = Slash
    THEN LET k == CHOOSE k \in 1..Len(path) :
                      path[k] = Slash /\ \A j \in 1..(k - 1) : path[j] /= Slash
         IN <<SubSeq(path, 1, k - 1)>> \o split(SubSeq(path, k + 1, Len(path)))
    ELSE <<path>>

\* TreeNode::File { diff_index } and TreeNode::Directory { name, children }
File(diff_index) == [kind |-> "File", diff_index |-> diff_index]
Directory(name, children) == [kind |-> "Directory", name |-> name, children |-> children]

\* A BTreeMap<String, TreeNode> is the sequence of its entries in key order.
\* Where key is in the map, 0 when it is not.
btree_index(map, key) ==
    IF \E i \in 1..Len(map) : map[i].key = key
    THEN CHOOSE i \in 1..Len(map) : map[i].key = key
    ELSE 0

\* A map that keeps its entries in insertion order: a new key goes last.
btree_insert_last(map, key, node) ==
    IF btree_index(map, key) > 0
    THEN [map EXCEPT ![btree_index(map, key)].node = node]
    ELSE Append(map, [key |-> key, node |-> node])

\* An insert that keeps the value of an existing key (entry(key).or_insert).
btree_insert_keep(map, key, node) ==
    IF btree_index(map, key) > 0
    THEN map
    ELSE LET k == Cardinality({i \in 1..Len(map) : str_lt(map[i].key, key)})
         IN (SubSeq(map, 1, k) \o <<[key |-> key, node |-> node]>>)
                \o SubSeq(map, k + 1, Len(map))

\* BTreeMap::insert: the value of an existing key is replaced, a new key is put
\* at its place in key order.
btree_insert(map, key, node) ==
    IF btree_index(map, key) > 0
    THEN [map EXCEPT ![btree_index(map, key)].node = node]
    ELSE LET k == Cardinality({i \in 1..Len(map) : str_lt(map[i].key, key)})
         IN (SubSeq(map, 1, k) \o <<[key |-> key, node |-> node]>>)
                \o SubSeq(map, k + 1, Len(map))

\* BTreeMap::entry(key).or_insert_with(..): the map with the key present.
btree_or_insert(map, key, node) ==
    IF btree_index(map, key) > 0 THEN map ELSE btree_insert(map, key, node)

RECURSIVE insert_into_tree(_, _, _)
insert_into_tree(map, parts, diff_index) ==
    IF Len(parts) = 0 THEN map
    ELSE IF Len(parts) = 1 THEN btree_insert(map, parts[1], File(diff_index))
    ELSE LET with_dir == btree_or_insert(map, parts[1], Directory(parts[1], <<>>))
             k == btree_index(with_dir, parts[1])
         IN IF with_dir[k].node.kind = "Directory"
            THEN [with_dir EXCEPT ![k].node.children =
                      insert_into_tree(@, Tail(parts), diff_index)]
            ELSE with_dir

RECURSIVE build_file_tree_from(_, _, _)
\* The for loop of build_file_tree from entry i (counted from 0) on.
build_file_tree_from(map, ds, i) ==
    IF i >= Len(ds) THEN map
    ELSE build_file_tree_from(insert_into_tree(map, split(ds[i + 1].new_path), i), ds, i + 1)

build_file_tree(ds) == build_file_tree_from(<<>>, ds, 0)

RECURSIVE Grouped(_, _, _, _)
\* The paths spelled by the segments w, a new path starting after each cut.
Grouped(w, cuts, i, cur) ==
    IF i > Len(w) THEN (IF Len(w) = 0 THEN <<>> ELSE <<cur>>)
    ELSE IF i = 1 THEN Grouped(w, cuts, 2, w[1])
    ELSE IF (i - 1) \in cuts THEN <<cur>> \o Grouped(w, cuts, i + 1, w[i])
    ELSE Grouped(w, cuts, i + 1, (cur \o <<Slash>>) \o w[i])

\* Every list of paths with at most n segments in all.
PathLists(n) ==
    {Grouped(w, cuts, 1, <<>>) :
         w \in UNION {[1..k -> SegNames] : k \in 0..n},
         cuts \in SUBSET (1..(n - 1))}

\* A FileDiff at a path, its lines left out.
DiffAt(path) == [old_path |-> path, new_path |-> path, lines |-> <<>>]

\* SpecTree: build_file_tree runs over a list of diffs, one insertion per step.
InitTree ==
    /\ pc = "build_file_tree"
    /\ old_content = <<>>
    /\ new_content = <<>>
    /\ changes = <<>>
    /\ lines = <<>>
    /\ pos = 0
    /\ delete_buf = <<>>
    /\ result = <<>>
    /\ unit = "git.rs"
    /\ staged = FALSE
    /\ changed_env = <<>>
    /\ untracked_env = <<>>
    /\ files = <<>>
    /\ untracked = <<>>
    /\ idx = 0
    /\ \E l \in PathLists(MaxSegs) : diffs = [i \in 1..Len(l) |-> DiffAt(l[i])]
    /\ change_set = <<>>
    /\ stores = <<>>
    /\ queries = <<>>
    /\ ret = Running
    /\ ViewIdle

\* one iteration of  for (i, diff) in diffs.iter().enumerate()
InsertIntoTree ==
    /\ pc = "build_file_tree"
    /\ idx < Len(diffs)
    /\ root' = insert_into_tree(root, split(diffs[idx + 1].new_path), idx)
    /\ idx' = idx + 1
    /\ UNCHANGED <<pc, diff_vars, unit, staged, changed_env, untracked_env, files,
                   untracked, diffs, change_set, stores, queries, ret>>
    /\ UNCHANGED <<file_pairs, fs, selected_index, view_mode, panel_mode,
                   collapsed_dirs, panel_width, elements>>

\* the loop is over: root is returned
TreeReturn ==
    /\ pc = "build_file_tree"
    /\ idx = Len(diffs)
    /\ pc' = "tree_built"
    /\ UNCHANGED <<diff_vars, git_vars, view_vars>>

NextTree == InsertIntoTree \/ TreeReturn

SpecTree == InitTree /\ [][NextTree]_vars

\* =========================================================== the viewer
\* The paths of the files compared: "a/a", "a/b" and "b".
PairPaths == {<<97, Slash, 97>>, <<97, Slash, 98>>, <<98>>}

\* Every list of at most n (old, new) pairs.
PairLists(n) == UNION {[1..k -> PairPaths \X PairPaths] : k \in 0..n}

\* format!("Error reading file: {e}"): one line, without terminator.
error_reading_file == <<[text |-> "Error reading file: io error", nl |-> FALSE]>>

\* fs::read_to_string(path).unwrap_or_default()
read_or_default(stored) == IF IsSome(stored) THEN Unwrap(stored) ELSE <<>>

\* fs::read_to_string(path).unwrap_or_else(|e| format!("Error reading file: {e}"))
read_or_error_text(stored) ==
    IF IsSome(stored) THEN Unwrap(stored) ELSE error_reading_file

\* SpecPairs: DiffViewer::from_file_pairs over a list of pairs and a file system,
\* one pair per step.
InitPairs ==
    /\ pc = "from_file_pairs"
    /\ old_content = <<>>
    /\ new_content = <<>>
    /\ changes = <<>>
    /\ lines = <<>>
    /\ pos = 0
    /\ delete_buf = <<>>
    /\ result = <<>>
    /\ GitIdle
    /\ file_pairs \in PairLists(MaxPairs)
    /\ fs \in [PairPaths -> Stored]
    /\ selected_index = None
    /\ view_mode = "Unified"
    /\ panel_mode = "List"
    /\ collapsed_dirs = {}
    /\ panel_width = 0
    /\ root = <<>>
    /\ elements = <<>>

\* FileDiff::from_files for the next pair of  file_pairs.iter().map(..)
FromFiles ==
    /\ pc = "from_file_pairs"
    /\ idx < Len(file_pairs)
    /\ LET old_path == file_pairs[idx + 1][1]
           new_path == file_pairs[idx + 1][2]
           old == read_or_error_text(fs[old_path])
           new == read_or_error_text(fs[new_path])
       IN /\ \E script \in iter_all_changes(old, new) :
                 diffs' = push(diffs, [old_path |-> old_path, new_path |-> new_path,
                                       lines |-> from_contents(script)])
          /\ change_set' = Append(change_set, [path |-> new_path, old_content |-> old,
                                               new_content |-> new])
    /\ idx' = idx + 1
    /\ UNCHANGED <<pc, diff_vars, view_vars, unit, staged, changed_env, untracked_env,
                   files, untracked, stores, queries, ret>>

\* .collect() and the Self { .. } of from_file_pairs
Construct ==
    /\ pc = "from_file_pairs"
    /\ idx = Len(file_pairs)
    /\ selected_index' = (IF Len(diffs) = 0 THEN None ELSE Some(0))
    /\ panel_width' = DEFAULT_PANEL_WIDTH
    /\ view_mode' = "Unified"
    /\ panel_mode' = "List"
    /\ collapsed_dirs' = {}
    /\ pc' = "viewer"
    /\ UNCHANGED <<diff_vars, git_vars, file_pairs, fs, root, elements>>

NextPairs == FromFiles \/ Construct

SpecPairs == InitPairs /\ [][NextPairs]_vars

\* ------------------------------------------------- the viewer's events
\* A panel element: a file item with its diff index, or a directory header
\* with the path its click handler holds.
FileItem(i, name, indent) ==
    [kind |-> "file-item", diff_index |-> Some(i), dir_path |-> None,
     name |-> name, indent |-> indent]
DirHeader(dir_path, name, indent) ==
    [kind |-> "dir", diff_index |-> None, dir_path |-> Some(dir_path),
     name |-> name, indent |-> indent]

\* " → " in UTF-8
Arrow == <<32, 226, 134, 146, 32>>

\* file_display_name: the path, or "old → new" when the two paths differ.
file_display_name(diff) ==
    IF diff.old_path = diff.new_path THEN diff.old_path
    ELSE (diff.old_path \o Arrow) \o diff.new_path

\* render_file_item: the item of diff i, named as the panel mode has it: the
\* display name in the list, the last segment of new_path in the tree.
render_file_item(ds, mode, i, indent) ==
    FileItem(i,
             IF mode = "List" THEN file_display_name(ds[i + 1])
             ELSE split(ds[i + 1].new_path)[Len(split(ds[i + 1].new_path))],
             indent)

RECURSIVE render_tree_nodes(_, _, _, _, _)
RECURSIVE render_dirs(_, _, _, _, _)
\* for (_key, node) in &dirs: the header of each directory, then, unless the
\* directory is collapsed, the elements of its children.
render_dirs(ds, collapsed, dirs, parent_path, depth) ==
    IF Len(dirs) = 0 THEN <<>>
    ELSE LET node == dirs[1].node
             dir_path == IF Len(parent_path) = 0 THEN node.name
                         ELSE (parent_path \o <<Slash>>) \o node.name
         IN (<<DirHeader(dir_path, node.name, depth * 16)>>
                 \o (IF dir_path \in collapsed THEN <<>>
                     ELSE render_tree_nodes(ds, collapsed, node.children, dir_path,
                                            depth + 1)))
                \o render_dirs(ds, collapsed, Tail(dirs), parent_path, depth)

\* render_tree_nodes listing the files of a level before its directories.
render_tree_nodes_files_first(ds, collapsed, nodes, parent_path, depth) ==
    LET dirs == SelectSeq(nodes, LAMBDA e : e.node.kind = "Directory")
        fls == SelectSeq(nodes, LAMBDA e : e.node.kind = "File")
    IN [k \in 1..Len(fls) |->
            render_file_item(ds, "Tree", fls[k].node.diff_index, depth * 16)]
           \o render_dirs(ds, collapsed, dirs, parent_path, depth)

\* The elements of one level: directories first, then files, each in key order.
render_tree_nodes(ds, collapsed, nodes, parent_path, depth) ==
    LET dirs == SelectSeq(nodes, LAMBDA e : e.node.kind = "Directory")
        fls == SelectSeq(nodes, LAMBDA e : e.node.kind = "File")
    IN render_dirs(ds, collapsed, dirs, parent_path, depth)
           \o [k \in 1..Len(fls) |->
                   render_file_item(ds, "Tree", fls[k].node.diff_index, depth * 16)]

\* The file and directory elements of the panel.
render_file_panel(ds, mode, collapsed) ==
    IF mode = "List" THEN [k \in 1..Len(ds) |-> render_file_item(ds, "List", k - 1, 0)]
    ELSE render_tree_nodes(ds, collapsed, build_file_tree(ds), <<>>, 0)

\* The diff pane: the rows of to_side_by_side for the selected diff in
\* side-by-side mode; the unified view shows diff.lines as they are.
render_diff_content(ds, selected, mode) ==
    IF IsSome(selected) /\ Unwrap(selected) < Len(ds) /\ mode = "SideBySide"
    THEN to_side_by_side(ds[Unwrap(selected) + 1].lines)
    ELSE <<>>

RECURSIVE sort_by_path(_)
\* The diffs in ascending order of new_path.
sort_by_path(ds) ==
    IF Len(ds) = 0 THEN <<>>
    ELSE LET m == CHOOSE k \in 1..Len(ds) :
                      \A j \in 1..Len(ds) :
                          /\ ~str_lt(ds[j].new_path, ds[k].new_path)
                          /\ (ds[j].new_path = ds[k].new_path => k <= j)
         IN <<ds[m]>> \o sort_by_path(SubSeq(ds, 1, m - 1) \o SubSeq(ds, m + 1, Len(ds)))

\* The diffs handed to from_diffs: at each path a removed line "a" and an added
\* line "b".
ChangedLine ==
    from_contents(<<[tag |-> "Delete", value |-> [text |-> "a", nl |-> TRUE]],
                    [tag |-> "Insert", value |-> [text |-> "b", nl |-> TRUE]]>>)

ViewerDiffs(n) ==
    {[i \in 1..Len(l) |-> [old_path |-> l[i], new_path |-> l[i], lines |-> ChangedLine]] :
         l \in UNION {[1..k -> PairPaths] : k \in 0..n}}

\* Window widths and pointer positions of a drag, in px.
WindowWidths == {800, 1000}
MouseXs == {0, 300, 576, 700, 900}

\* SpecViewer: a viewer built by DiffViewer::from_diffs, and its events.
InitViewer ==
    /\ pc = "viewer"
    /\ old_content = <<>>
    /\ new_content = <<>>
    /\ changes = <<>>
    /\ lines = <<>>
    /\ pos = 0
    /\ delete_buf = <<>>
    /\ result = <<>>
    /\ unit = "git.rs"
    /\ staged = FALSE
    /\ changed_env = <<>>
    /\ untracked_env = <<>>
    /\ files = <<>>
    /\ untracked = <<>>
    /\ idx = 0
    /\ diffs \in ViewerDiffs(MaxPairs)
    /\ change_set = <<>>
    /\ stores = <<>>
    /\ queries = <<>>
    /\ ret = Running
    /\ file_pairs = <<>>
    /\ fs = <<>>
    /\ selected_index = (IF Len(diffs) = 0 THEN None ELSE Some(0))
    /\ panel_width = DEFAULT_PANEL_WIDTH
    /\ view_mode = "Unified"
    /\ panel_mode = "List"
    /\ collapsed_dirs = {}
    /\ root = <<>>
    /\ elements = <<>>

\* Render sorting self.diffs by path before it lays out the tree panel.
Render_sorting ==
    /\ pc \in {"viewer", "rendered"}
    /\ diffs' = (IF panel_mode = "Tree" THEN sort_by_path(diffs) ELSE diffs)
    /\ result' = render_diff_content(diffs', selected_index, view_mode)
    /\ root' = (IF panel_mode = "Tree" THEN build_file_tree(diffs') ELSE root)
    /\ elements' = render_file_panel(diffs', panel_mode, collapsed_dirs)
    /\ pc' = "rendered"
    /\ UNCHANGED <<old_content, new_content, changes, lines, pos, delete_buf>>
    /\ UNCHANGED <<unit, staged, changed_env, untracked_env, files, untracked, idx,
                   change_set, stores, queries, ret>>
    /\ UNCHANGED <<file_pairs, fs, selected_index, view_mode, panel_mode,
                   collapsed_dirs, panel_width>>

\* <DiffViewer as Render>::render: the diff pane, the tree when the panel shows
\* one, and the panel's elements with their click handlers.
Render ==
    /\ pc \in {"viewer", "rendered"}
    /\ result' = render_diff_content(diffs, selected_index, view_mode)
    /\ root' = (IF panel_mode = "Tree" THEN build_file_tree(diffs) ELSE root)
    /\ elements' = render_file_panel(diffs, panel_mode, collapsed_dirs)
    /\ pc' = "rendered"
    /\ UNCHANGED <<old_content, new_content, changes, lines, pos, delete_buf>>
    /\ UNCHANGED git_vars
    /\ UNCHANGED <<file_pairs, fs, selected_index, view_mode, panel_mode,
                   collapsed_dirs, panel_width>>

\* on_click of a file item taking i for a position counted from 1.
ClickFileItem_one_based ==
    /\ pc = "rendered"
    /\ \E e \in 1..Len(elements) :
           /\ elements[e].kind = "file-item"
           /\ selected_index' = Some(Unwrap(elements[e].diff_index) + 1)
    /\ UNCHANGED <<pc, diff_vars, git_vars, file_pairs, fs, view_mode, panel_mode,
                   collapsed_dirs, panel_width, root, elements>>

\* on_click of a file item: this.selected_index = Some(i)
ClickFileItem ==
    /\ pc = "rendered"
    /\ \E e \in 1..Len(elements) :
           /\ elements[e].kind = "file-item"
           /\ selected_index' = Some(Unwrap(elements[e].diff_index))
    /\ UNCHANGED <<pc, diff_vars, git_vars, file_pairs, fs, view_mode, panel_mode,
                   collapsed_dirs, panel_width, root, elements>>

\* on_click of btn-unified and of btn-side-by-side, shown when a diff is selected
SetViewMode ==
    /\ pc = "rendered"
    /\ IsSome(selected_index)
    /\ Unwrap(selected_index) < Len(diffs)
    /\ \E mode \in {"Unified", "SideBySide"} : view_mode' = mode
    /\ UNCHANGED <<pc, diff_vars, git_vars, file_pairs, fs, selected_index, panel_mode,
                   collapsed_dirs, panel_width, root, elements>>

\* on_click of btn-list-view and of btn-tree-view
SetPanelMode ==
    /\ pc = "rendered"
    /\ \E mode \in {"List", "Tree"} : panel_mode' = mode
    /\ UNCHANGED <<pc, diff_vars, git_vars, file_pairs, fs, selected_index, view_mode,
                   collapsed_dirs, panel_width, root, elements>>

\* on_click of a directory header: its path leaves or enters collapsed_dirs
ToggleDir ==
    /\ pc = "rendered"
    /\ \E e \in 1..Len(elements) :
           /\ elements[e].kind = "dir"
           /\ LET dir_path == Unwrap(elements[e].dir_path)
              IN collapsed_dirs' = (IF dir_path \in collapsed_dirs
                                    THEN collapsed_dirs \ {dir_path}
                                    ELSE collapsed_dirs \cup {dir_path})
    /\ UNCHANGED <<pc, diff_vars, git_vars, file_pairs, fs, selected_index, view_mode,
                   panel_mode, panel_width, root, elements>>

Max2(a, b) == IF a >= b THEN a ELSE b
Min2(a, b) == IF a <= b THEN a ELSE b

\* on_drag_move of the resize handle
DragMove ==
    /\ pc = "rendered"
    /\ \E window_width \in WindowWidths, mouse_x \in MouseXs :
           LET new_width == (window_width - mouse_x) - DRAG_HANDLE_WIDTH
               clamped == Min2(Max2(new_width, MIN_PANEL_WIDTH), MAX_PANEL_WIDTH)
           IN panel_width' = clamped
    /\ UNCHANGED <<pc, diff_vars, git_vars, file_pairs, fs, selected_index, view_mode,
                   panel_mode, collapsed_dirs, root, elements>>

NextViewer ==
    \/ Render
    \/ ClickFileItem
    \/ SetViewMode
    \/ SetPanelMode
    \/ ToggleDir
    \/ DragMove

SpecViewer == InitViewer /\ [][NextViewer]_vars

\* SpecPanel: a viewer built by DiffViewer::from_diffs over diffs at any paths,
\* and the events of its file panel.
InitPanel ==
    /\ pc = "viewer"
    /\ old_content = <<>>
    /\ new_content = <<>>
    /\ changes = <<>>
    /\ lines = <<>>
    /\ pos = 0
    /\ delete_buf = <<>>
    /\ result = <<>>
    /\ unit = "git.rs"
    /\ staged = FALSE
    /\ changed_env = <<>>
    /\ untracked_env = <<>>
    /\ files = <<>>
    /\ untracked = <<>>
    /\ idx = 0
    /\ \E l \in PathLists(MaxPanelSegs) : diffs = [i \in 1..Len(l) |-> DiffAt(l[i])]
    /\ change_set = <<>>
    /\ stores = <<>>
    /\ queries = <<>>
    /\ ret = Running
    /\ file_pairs = <<>>
    /\ fs = <<>>
    /\ selected_index = (IF Len(diffs) = 0 THEN None ELSE Some(0))
    /\ panel_width = DEFAULT_PANEL_WIDTH
    /\ view_mode = "Unified"
    /\ panel_mode = "List"
    /\ collapsed_dirs = {}
    /\ root = <<>>
    /\ elements = <<>>

NextPanel ==
    \/ Render
    \/ ClickFileItem
    \/ SetPanelMode
    \/ ToggleDir

SpecPanel == InitPanel /\ [][NextPanel]_vars

\* ================================================================ claims
RECURSIVE PresentNumbers(_, _)
\* The values of a line-number field, in output order, over the lines where it is set.
PresentNumbers(ls, field) ==
    IF Len(ls) = 0 THEN <<>>
    ELSE (IF IsSome(Head(ls)[field]) THEN <<Unwrap(Head(ls)[field])>> ELSE <<>>)
             \o PresentNumbers(Tail(ls), field)

CountTag(ls, tags) == Cardinality({i \in 1..Len(ls) : ls[i].tag \in tags})

\* C1: in every FileDiff built by from_contents, the old_lineno values taken in
\* output order over the lines where it is present are exactly 1, 2, 3, ..., and
\* so are the new_lineno values.
C1_LineNumbersConsecutive ==
    pc = "built" =>
        /\ \A i \in 1..Len(PresentNumbers(lines, "old_lineno")) :
               PresentNumbers(lines, "old_lineno")[i] = i
        /\ \A i \in 1..Len(PresentNumbers(lines, "new_lineno")) :
               PresentNumbers(lines, "new_lineno")[i] = i

\* A built diff with all three tags, and two numbered lines on each side.
C1_Witness ==
    /\ pc = "built"
    /\ \A t \in Tags : CountTag(lines, {t}) > 0
    /\ Len(PresentNumbers(lines, "old_lineno")) >= 2
    /\ Len(PresentNumbers(lines, "new_lineno")) >= 2

\* C2: every DiffLine from_contents emits has both line numbers when Equal, only
\* old_lineno when Delete, only new_lineno when Insert, and no line number is 0.
C2_NumbersMatchTag ==
    pc = "built" =>
        \A i \in 1..Len(lines) :
            /\ lines[i].tag = "Equal" =>
                   IsSome(lines[i].old_lineno) /\ IsSome(lines[i].new_lineno)
            /\ lines[i].tag = "Delete" =>
                   IsSome(lines[i].old_lineno) /\ IsNone(lines[i].new_lineno)
            /\ lines[i].tag = "Insert" =>
                   IsNone(lines[i].old_lineno) /\ IsSome(lines[i].new_lineno)
            /\ lines[i].old_lineno /= Some(0)
            /\ lines[i].new_lineno /= Some(0)

\* A built diff that starts with a Delete and holds an Insert and an Equal line.
C2_Witness ==
    /\ pc = "built"
    /\ Len(lines) >= 3
    /\ lines[1].tag = "Delete"
    /\ \A t \in Tags : CountTag(lines, {t}) > 0

\* C3: the rows to_side_by_side returns with left set are as many as the Delete and
\* Equal input lines, and those with right set as many as the Insert and Equal ones.
C3_AlignmentConservation ==
    pc = "returned" =>
        /\ Cardinality({r \in 1..Len(result) : IsSome(result[r].left)})
               = CountTag(lines, {"Delete", "Equal"})
        /\ Cardinality({r \in 1..Len(result) : IsSome(result[r].right)})
               = CountTag(lines, {"Insert", "Equal"})

\* A returned alignment of an input where a Delete was pending at an Equal line.
C3_Witness ==
    /\ pc = "returned"
    /\ \E i \in 1..(Len(lines) - 1) : lines[i].tag = "Delete" /\ lines[i + 1].tag = "Equal"
    /\ CountTag(lines, {"Insert"}) > 0

RECURSIVE Pending(_, _)
\* How many Delete lines are unpaired after the first j lines, from the tags alone.
Pending(ls, j) ==
    IF j = 0 THEN 0
    ELSE CASE ls[j].tag = "Delete" -> Pending(ls, j - 1) + 1
           [] ls[j].tag = "Insert" ->
                  IF Pending(ls, j - 1) > 0 THEN Pending(ls, j - 1) - 1 ELSE 0
           [] ls[j].tag = "Equal" -> 0

\* Lines s .. s+k-1 are Delete and lines s+k .. s+k+m-1 are Insert, nothing pending before.
IsBlock(ls, s, k, m) ==
    /\ s >= 1 /\ k >= 1 /\ m >= 1
    /\ s + k + m - 1 <= Len(ls)
    /\ Pending(ls, s - 1) = 0
    /\ \A i \in s..(s + k - 1) : ls[i].tag = "Delete"
    /\ \A i \in (s + k)..(s + k + m - 1) : ls[i].tag = "Insert"

Min(a, b) == IF a <= b THEN a ELSE b

\* C4: for a block of k Delete lines followed by m Insert lines, the queue empty
\* before it, the i-th Insert (i <= min(k, m)) is in a row whose left is the i-th
\* Delete of the block: pairing is oldest first.
C4_FifoPairing ==
    pc = "returned" =>
        \A s \in 1..Len(lines), k \in 1..Len(lines), m \in 1..Len(lines) :
            IsBlock(lines, s, k, m) =>
                \A i \in 1..Min(k, m) :
                    \E r \in 1..Len(result) :
                        /\ result[r].right = Some(lines[s + k + i - 1])
                        /\ result[r].left = Some(lines[s + i - 1])

\* A returned alignment of a block of two Delete lines followed by two Insert lines.
C4_Witness ==
    /\ pc = "returned"
    /\ \E s \in 1..Len(lines) : IsBlock(lines, s, 2, 2)

\* C5: every row to_side_by_side produces has left or right set.
C5_NeverBothAbsent ==
    \A r \in 1..Len(result) : IsSome(result[r].left) \/ IsSome(result[r].right)

\* A returned alignment with a left-only, a right-only and a two-sided row.
C5_Witness ==
    /\ pc = "returned"
    /\ \E r \in 1..Len(result) : IsSome(result[r].left) /\ IsNone(result[r].right)
    /\ \E r \in 1..Len(result) : IsNone(result[r].left) /\ IsSome(result[r].right)
    /\ \E r \in 1..Len(result) : IsSome(result[r].left) /\ IsSome(result[r].right)

\* ------------------------------------------------------ discovery claims
\* The text a store gives for a path: empty when it holds none.
StoredText(o) == IF IsSome(o) THEN Unwrap(o) ELSE <<>>

Ran(cmd, out) == \E q \in 1..Len(queries) : queries[q].cmd = cmd /\ queries[q].out = out

\* No command failed to start, and the root resolution and the listings exited 0.
ListingsSucceeded ==
    \A q \in 1..Len(queries) :
        /\ queries[q].out /= "spawn_error"
        /\ queries[q].cmd /= "show" => queries[q].out = "success"

\* The run got through its gathering: nothing failed to start, and the root
\* resolution and the changed-file listing exited 0.
GatheringEnded ==
    /\ pc = "done"
    /\ \A q \in 1..Len(queries) :
        /\ queries[q].out /= "spawn_error"
        /\ queries[q].cmd \in {"rev-parse --show-toplevel", "diff --name-only"}
               => queries[q].out = "success"

NoChanges(is_staged) ==
    Err(IF is_staged THEN "No staged changes found" ELSE "No unstaged changes found", <<>>)

\* C6: git_diff_files never returns a successful empty collection: in either mode,
\* when gathering ends with zero entries the result is the NoChanges error of that mode.
C6_NeverEmptySuccess ==
    /\ (pc = "done" /\ ret.kind = "Ok") => Len(diffs) > 0
    /\ (GatheringEnded /\ Len(diffs) = 0) => ret = NoChanges(staged)

\* git.rs, unstaged: both listings succeeded and were empty, and NoChanges came back.
C6_Witness ==
    /\ pc = "done"
    /\ unit = "git.rs"
    /\ ~staged
    /\ Ran("diff --name-only", "success")
    /\ Ran("ls-files --others", "success")
    /\ Len(diffs) = 0
    /\ ret = NoChanges(FALSE)

\* C7: in staged discovery, for every listed path the old text is the last-commit
\* content and the new text the indexed content, so a path whose index differs from
\* the last commit yields a diff with a line that is not Equal.
C7_StagedOldIsLastCommit ==
    (pc = "done" /\ staged /\ ret.kind = "Ok") =>
        \A i \in 1..Len(diffs) :
            /\ change_set[i].old_content = StoredText(stores[i].head)
            /\ change_set[i].new_content = StoredText(stores[i].index)
            /\ StoredText(stores[i].head) /= StoredText(stores[i].index) =>
                   \E l \in 1..Len(diffs[i].lines) : diffs[i].lines[l].tag /= "Equal"

\* C8: in unstaged discovery every untracked path of the working tree yields one
\* entry with old text empty and new text the working-tree content, and a working
\* tree with only untracked files yields a non-empty success, not NoChanges.
C8_UntrackedYieldEntries ==
    (pc = "done" /\ ~staged /\ ListingsSucceeded) =>
        /\ \A u \in 1..Len(untracked_env) :
               /\ Cardinality({i \in 1..Len(diffs) :
                                   diffs[i].new_path = untracked_env[u]}) = 1
               /\ \A i \in 1..Len(diffs) :
                      diffs[i].new_path = untracked_env[u] =>
                          /\ change_set[i].old_content = <<>>
                          /\ IsSome(stores[i].worktree) =>
                                 change_set[i].new_content = Unwrap(stores[i].worktree)
        /\ (Len(changed_env) = 0 /\ Len(untracked_env) > 0) =>
               ret.kind = "Ok" /\ Len(diffs) > 0

\* What a listing reported to the run: its paths when the command ran and exited 0.
Reported(cmd, listing) == IF Ran(cmd, "success") THEN listing ELSE <<>>

\* C9: the returned collection lists the tracked-changed files first, in the order
\* the changed-file listing reported them, then the untracked files in the order the
\* untracked listing reported them; staged discovery holds no untracked entry.
C9_TrackedThenUntracked ==
    (pc = "done" /\ ret.kind = "Ok") =>
        /\ [i \in 1..Len(diffs) |-> diffs[i].new_path]
               = Reported("diff --name-only", changed_env)
                     \o Reported("ls-files --others", untracked_env)
        /\ \A i \in 1..Len(diffs) : diffs[i].old_path = diffs[i].new_path
        /\ staged => \A i \in 1..Len(diffs) : diffs[i].new_path.kind /= "untracked"

\* git.rs, unstaged: two tracked and two untracked files were listed and returned.
C9_Witness ==
    /\ pc = "done"
    /\ ret.kind = "Ok"
    /\ unit = "git.rs"
    /\ ~staged
    /\ Len(changed_env) = 2
    /\ Len(untracked_env) = 2
    /\ Len(diffs) = 4

\* C10: when a listing query (the changed-file listing, or the untracked listing)
\* exits non-zero, git_diff_files returns the error carrying that query's stderr,
\* never success and never NoChanges, and the query is run once.
C10_ListingFailureSurfaces ==
    pc = "done" =>
        \A q \in 1..Len(queries) :
            (/\ queries[q].cmd \in {"diff --name-only", "ls-files --others"}
             /\ queries[q].out = "nonzero")
            => /\ ret.kind = "Err"
               /\ Len(ret.arg) = 2
               /\ ret.arg = Stderr(queries[q].cmd)
               /\ Cardinality({r \in 1..Len(queries) :
                                   queries[r].cmd = queries[q].cmd}) = 1

\* C11: when repository-root resolution fails, git_diff_files fails with the
\* NotARepository error in both modes, before any listing or content query and
\* without producing any FileDiff.
C11_RootFailureIsNotARepository ==
    (pc = "done" /\ ~Ran("rev-parse --show-toplevel", "success")) =>
        /\ ret = Err("Not a git repository", <<>>)
        /\ Len(queries) = 1
        /\ diffs = <<>>

\* C11 as amended: a non-zero exit of the root resolution gives "Not a git
\* repository", a git that cannot be started gives "Failed to run git: <cause>";
\* either way no other query was issued and no FileDiff was produced.
C11_RootFailureEndsRun ==
    (pc = "done" /\ ~Ran("rev-parse --show-toplevel", "success")) =>
        /\ Ran("rev-parse --show-toplevel", "nonzero") =>
               ret = Err("Not a git repository", <<>>)
        /\ Ran("rev-parse --show-toplevel", "spawn_error") =>
               ret = Err("Failed to run git", <<"io error">>)
        /\ Len(queries) = 1
        /\ diffs = <<>>
        /\ change_set = <<>>

\* A staged run that ended on a non-zero exit of the root resolution, in a
\* repository that has changed files to list.
C11_Witness ==
    /\ pc = "done"
    /\ staged
    /\ Ran("rev-parse --show-toplevel", "nonzero")
    /\ Len(changed_env) > 0
    /\ ret = Err("Not a git repository", <<>>)

\* ---------------------------------------------------------------- C14, C15
RECURSIVE ChainTo(_, _, _)
\* Following parts from map leads through one Directory per non-final segment,
\* named by it, to a File for entry i at the final segment.
ChainTo(map, parts, i) ==
    /\ Len(parts) > 0
    /\ \E e \in 1..Len(map) :
           /\ map[e].key = parts[1]
           /\ IF Len(parts) = 1
              THEN map[e].node = File(i)
              ELSE /\ map[e].node.kind = "Directory"
                   /\ map[e].node.name = parts[1]
                   /\ ChainTo(map[e].node.children, Tail(parts), i)

RECURSIVE FileIndexes(_)
\* The diff_index of every File node of the tree, one element per node.
FileIndexes(map) ==
    IF Len(map) = 0 THEN <<>>
    ELSE (IF map[1].node.kind = "File" THEN <<map[1].node.diff_index>>
          ELSE FileIndexes(map[1].node.children)) \o FileIndexes(Tail(map))

Occurrences(s, x) == Cardinality({k \in 1..Len(s) : s[k] = x})

PathsDistinct ==
    \A i, j \in 1..Len(diffs) : i /= j => diffs[i].new_path /= diffs[j].new_path

TreeHoldsEveryPath ==
    /\ \A i \in 1..Len(diffs) : ChainTo(root, split(diffs[i].new_path), i - 1)
    /\ \A i \in 0..(Len(diffs) - 1) : Occurrences(FileIndexes(root), i) = 1
    /\ Len(FileIndexes(root)) = Len(diffs)

\* C14: for pairwise distinct paths the tree returned by
\* build_file_tree holds, for every path, a chain of Directory nodes, one per
\* non-final segment, ending in a File node with that entry's index, and every
\* index 0..n-1 is in exactly one File node.
C14_EveryPathHasItsFile ==
    (pc = "tree_built" /\ PathsDistinct) => TreeHoldsEveryPath

RECURSIVE KeysAscending(_)
\* At every level the keys are strictly ascending, so no two children share a
\* name, and a Directory is stored under its own name.
KeysAscending(map) ==
    /\ \A k \in 1..(Len(map) - 1) : str_lt(map[k].key, map[k + 1].key)
    /\ \A k \in 1..Len(map) :
           map[k].node.kind = "Directory" =>
               /\ map[k].node.name = map[k].key
               /\ KeysAscending(map[k].node.children)

\* C15: at every level of the tree, after any number of insertions in any
\* order, children have pairwise different names and are held in ascending
\* lexicographic order of name.
C15_ChildrenSortedUnique == KeysAscending(root)

\* below the root, a later insertion went before an earlier one
C15_Witness ==
    /\ pc = "tree_built"
    /\ Len(root) = 1
    /\ root[1].node.kind = "Directory"
    /\ Len(root[1].node.children) = 2
    /\ root[1].node.children[1].node = File(1)
    /\ root[1].node.children[2].node = File(0)

\* ---------------------------------------------------------------- C12, C13
\* The text a side of a diff shows: the content of its lines that are not of
\* the other side's own tag, in order.
SideContent(ls, other) ==
    LET kept == SelectSeq(ls, LAMBDA l : l.tag /= other)
    IN [k \in 1..Len(kept) |-> kept[k].content]

TextContent(t) == [k \in 1..Len(t) |-> t[k].text]

\* What from_file_pairs is to show for a path: the file's text, or for an
\* unreadable file the placeholder line.
Shown(path) ==
    IF IsSome(fs[path]) THEN TextContent(Unwrap(fs[path]))
    ELSE <<"Error reading file: io error">>

\* C12: from_file_pairs over n pairs ends with exactly n FileDiffs in request
\* order whatever paths are unreadable; the side of an unreadable path shows the
\* placeholder text, the other side its file's text, and no pair is dropped.
C12_EveryPairYieldsItsDiff ==
    pc = "viewer" =>
        /\ Len(diffs) = Len(file_pairs)
        /\ \A i \in 1..Len(file_pairs) :
               /\ diffs[i].old_path = file_pairs[i][1]
               /\ diffs[i].new_path = file_pairs[i][2]
               /\ SideContent(diffs[i].lines, "Insert") = Shown(file_pairs[i][1])
               /\ SideContent(diffs[i].lines, "Delete") = Shown(file_pairs[i][2])

\* two pairs, the first with an unreadable old file and a readable new one,
\* the second readable on both sides
C12_Witness ==
    /\ pc = "viewer"
    /\ Len(file_pairs) = 2
    /\ IsNone(fs[file_pairs[1][1]])
    /\ IsSome(fs[file_pairs[1][2]]) /\ Unwrap(fs[file_pairs[1][2]]) /= <<>>
    /\ IsSome(fs[file_pairs[2][1]])
    /\ IsSome(fs[file_pairs[2][2]])
    /\ Len(diffs) = 2

\* C13: when working-tree discovery (unstaged) cannot read a listed file,
\* tracked-changed or untracked, it still returns an entry for the path and the
\* entry's new text is the placeholder describing the failure.
C13_UnreadableShowsPlaceholder ==
    (pc = "done" /\ unit = "git.rs" /\ ~staged /\ ret.kind = "Ok") =>
        \A i \in 1..Len(stores) :
            IsNone(stores[i].worktree) =>
                /\ change_set[i].path = stores[i].path
                /\ change_set[i].new_content = error_reading_file

\* ---------------------------------------------------------------- C16
\* C16: from_contents over identical old and new texts yields only Unchanged
\* (Equal) lines, one per line of the text and with its content, each with
\* old_lineno equal to new_lineno, the line's position.
C16_IdenticalTextsAllUnchanged ==
    (pc = "built" /\ old_content = new_content) =>
        /\ Len(lines) = Len(old_content)
        /\ \A i \in 1..Len(lines) :
               /\ lines[i].tag = "Equal"
               /\ lines[i].old_lineno = lines[i].new_lineno
               /\ lines[i].old_lineno = Some(i)
               /\ lines[i].content = old_content[i].text

\* identical texts of three lines, the last without terminator
C16_Witness ==
    /\ pc = "built"
    /\ old_content = new_content
    /\ Len(old_content) = 3
    /\ ~old_content[3].nl

\* ---------------------------------------------------------------- C17
\* C17: once the viewer is constructed, no event (file-item click, view-mode or
\* panel-mode button, directory toggle, panel drag, render) changes diffs: every
\* step leaves its length, order, paths and lines as they were.
C17_EventsLeaveDiffsAlone == [][diffs' = diffs]_vars

\* every kind of event has acted: another file is selected, both modes are
\* switched, a directory is collapsed, the panel is dragged to its widest and
\* the panel is rendered as a tree over two diffs
C17_Witness ==
    /\ pc = "rendered"
    /\ Len(diffs) = 2
    /\ selected_index = Some(1)
    /\ view_mode = "SideBySide"
    /\ panel_mode = "Tree"
    /\ collapsed_dirs /= {}
    /\ panel_width = MAX_PANEL_WIDTH
    /\ Len(result) > 0
    /\ Len(root) = 2
    /\ \E e \in 1..Len(elements) : elements[e].kind = "dir"

\* ---------------------------------------------------------------- C18
\* Lines s .. s+k-1 are a whole run of Delete lines and lines s+k .. s+k+m-1 the
\* whole run of Insert lines that follows it.
IsWholeBlock(ls, s, k, m) ==
    /\ s >= 1 /\ k >= 1 /\ m >= 1
    /\ s + k + m - 1 <= Len(ls)
    /\ (s = 1 \/ ls[s - 1].tag /= "Delete")
    /\ \A i \in s..(s + k - 1) : ls[i].tag = "Delete"
    /\ \A i \in (s + k)..(s + k + m - 1) : ls[i].tag = "Insert"
    /\ (s + k + m > Len(ls) \/ ls[s + k + m].tag /= "Insert")

\* Rows r0+1 .. r0+min(k,m) of rows pair the block's Delete and Insert lines in
\* order, and the rows right after them are the excess lines of the longer
\* side, single-sided and in order.
ExcessFollowsPairsAt(rows, ls, s, k, m, r0) ==
    /\ r0 + (IF k > m THEN k ELSE m) <= Len(rows)
    /\ \A i \in 1..Min(k, m) :
           rows[r0 + i] = [left |-> Some(ls[s + i - 1]), right |-> Some(ls[s + k + i - 1])]
    /\ \A i \in (Min(k, m) + 1)..k :
           rows[r0 + i] = [left |-> Some(ls[s + i - 1]), right |-> None]
    /\ \A i \in (Min(k, m) + 1)..m :
           rows[r0 + i] = [left |-> None, right |-> Some(ls[s + k + i - 1])]

\* After line j comes an Insert line before any Equal line.
RECURSIVE InsertBeforeEqual(_, _)
InsertBeforeEqual(ls, j) ==
    IF j >= Len(ls) THEN FALSE
    ELSE CASE ls[j + 1].tag = "Insert" -> TRUE
           [] ls[j + 1].tag = "Equal" -> FALSE
           [] ls[j + 1].tag = "Delete" -> InsertBeforeEqual(ls, j + 1)

\* C18 as stated: for every block of k Delete lines followed by m Insert lines
\* with k /= m, whatever follows it, the result holds the min(k,m) paired rows of
\* the block and right after them the excess lines as single-sided rows in order.
C18_ExcessFollowsPairs ==
    pc = "returned" =>
        \A s \in 1..Len(lines), k \in 1..Len(lines), m \in 1..Len(lines) :
            (IsWholeBlock(lines, s, k, m) /\ k /= m) =>
                \E r0 \in 0..Len(result) : ExcessFollowsPairsAt(result, lines, s, k, m, r0)

\* C18 amended: the same for a block before which nothing is pending and, when
\* the Delete lines are the longer side, after which no Insert line comes
\* before the next Equal line or the end of the input.
C18_ExcessFollowsPairsUnlessPairedLater ==
    pc = "returned" =>
        \A s \in 1..Len(lines), k \in 1..Len(lines), m \in 1..Len(lines) :
            (/\ IsWholeBlock(lines, s, k, m)
             /\ k /= m
             /\ Pending(lines, s - 1) = 0
             /\ (k > m => ~InsertBeforeEqual(lines, s + k + m - 1))) =>
                \E r0 \in 0..Len(result) : ExcessFollowsPairsAt(result, lines, s, k, m, r0)

\* a returned alignment of three Delete lines, one Insert line and a Delete line
C18_Witness ==
    /\ pc = "returned"
    /\ Len(lines) = 5
    /\ IsWholeBlock(lines, 1, 3, 1)
    /\ lines[5].tag = "Delete"
    /\ Len(result) = 4

\* ---------------------------------------------------------------- C19
\* One left-only row per line of q, in the order of q.
LeftOnlyRows(q) == [i \in 1..Len(q) |-> [left |-> Some(q[i]), right |-> None]]

\* C19: the step over an Equal line appends to the result one left-only row per
\* pending Delete line, in queue order, then exactly one row with that Equal
\* line on both sides, and leaves the queue empty.
C19_EqualFlushesThenPairs ==
    [][(pc = "loop" /\ pos < Len(lines) /\ pos' = pos + 1
            /\ lines[pos + 1].tag = "Equal") =>
           /\ result' = (result \o LeftOnlyRows(delete_buf))
                            \o <<[left |-> Some(lines[pos + 1]),
                                  right |-> Some(lines[pos + 1])]>>
           /\ delete_buf' = <<>>]_vars

\* an Equal line has just been stepped over with two Delete lines pending
C19_Witness ==
    /\ pc = "loop"
    /\ pos = 4
    /\ lines[1].tag = "Equal"
    /\ lines[2].tag = "Delete"
    /\ lines[3].tag = "Delete"
    /\ lines[4].tag = "Equal"
    /\ Len(result) = 4
    /\ delete_buf = <<>>

\* ---------------------------------------------------------------- C20
\* The last n elements of s.
LastN(s, n) == SubSeq(s, Len(s) - n + 1, Len(s))

\* The Delete lines of ls, in order.
DeleteLines(ls) == SelectSeq(ls, LAMBDA l : l.tag = "Delete")

\* C20: to_side_by_side always comes to its end, and there the Delete lines
\* still pending are the last rows of the result, left-only and in their order,
\* with nothing left in the queue; an input of Delete lines only gives one
\* left-only row per line and the empty input the empty result.
C20_PendingFlushedAtEnd ==
    /\ pc = "loop" => ENABLED NextAlign
    /\ pc = "returned" =>
           LET p == Pending(lines, Len(lines)) IN
           /\ delete_buf = <<>>
           /\ p <= Len(result)
           /\ LastN(result, p) = LeftOnlyRows(LastN(DeleteLines(lines), p))
           /\ (\A i \in 1..Len(lines) : lines[i].tag = "Delete") =>
                  result = LeftOnlyRows(lines)
           /\ lines = <<>> => result = <<>>

\* a returned alignment that ended with two Delete lines pending behind a pair
C20_Witness ==
    /\ pc = "returned"
    /\ Len(lines) = 5
    /\ lines[1].tag = "Equal"
    /\ lines[2].tag = "Delete"
    /\ lines[3].tag = "Insert"
    /\ Pending(lines, 5) = 2
    /\ Len(result) = 4

\* ---------------------------------------------------------------- C24
\* The lines in the left (right) positions of rows, top to bottom.
LeftLines(rows) ==
    LET kept == SelectSeq(rows, LAMBDA r : IsSome(r.left))
    IN [i \in 1..Len(kept) |-> Unwrap(kept[i].left)]

RightLines(rows) ==
    LET kept == SelectSeq(rows, LAMBDA r : IsSome(r.right))
    IN [i \in 1..Len(kept) |-> Unwrap(kept[i].right)]

\* Where line l is in the input.
PosOf(ls, l) == CHOOSE i \in 1..Len(ls) : ls[i] = l

\* C24: top to bottom, the lines in left positions of the result are in their
\* input order with old_lineno strictly increasing, and the lines in right
\* positions are in their input order with new_lineno strictly increasing.
C24_SidesKeepInputOrder ==
    /\ \A i, j \in 1..Len(LeftLines(result)) :
           i < j =>
               /\ PosOf(lines, LeftLines(result)[i]) < PosOf(lines, LeftLines(result)[j])
               /\ Unwrap(LeftLines(result)[i].old_lineno)
                      < Unwrap(LeftLines(result)[j].old_lineno)
    /\ \A i, j \in 1..Len(RightLines(result)) :
           i < j =>
               /\ PosOf(lines, RightLines(result)[i]) < PosOf(lines, RightLines(result)[j])
               /\ Unwrap(RightLines(result)[i].new_lineno)
                      < Unwrap(RightLines(result)[j].new_lineno)

\* a returned alignment with two flushed Delete lines, an Equal line and a pair
C24_Witness ==
    /\ pc = "returned"
    /\ Len(lines) = 5
    /\ lines[1].tag = "Delete"
    /\ lines[2].tag = "Delete"
    /\ lines[3].tag = "Equal"
    /\ lines[4].tag = "Delete"
    /\ lines[5].tag = "Insert"
    /\ Len(LeftLines(result)) = 4
    /\ Len(RightLines(result)) = 2

\* ---------------------------------------------------------------- C25
\* C25: in every row of the result with a Delete line on the left and an
\* Insert line on the right, the Delete line comes before the Insert line in
\* the input and no Equal line lies between the two.
C25_NoPairAcrossUnchanged ==
    \A r \in 1..Len(result) :
        (/\ IsSome(result[r].left) /\ IsSome(result[r].right)
         /\ Unwrap(result[r].left).tag = "Delete"
         /\ Unwrap(result[r].right).tag = "Insert") =>
            LET d == PosOf(lines, Unwrap(result[r].left))
                a == PosOf(lines, Unwrap(result[r].right))
            IN /\ d < a
               /\ \A k \in d..a : lines[k].tag /= "Equal"

\* a returned alignment with a Delete line before an Equal line and a pair
\* after it
C25_Witness ==
    /\ pc = "returned"
    /\ Len(lines) = 5
    /\ lines[1].tag = "Delete"
    /\ lines[2].tag = "Equal"
    /\ lines[3].tag = "Insert"
    /\ lines[4].tag = "Delete"
    /\ lines[5].tag = "Insert"
    /\ result[4] = [left |-> Some(lines[4]), right |-> Some(lines[5])]

\* ---------------------------------------------------------------- C22
\* The set of the diff indexes held by File nodes of the tree.
IndexSet(map) == {FileIndexes(map)[k] : k \in 1..Len(FileIndexes(map))}

\* C22: the insertion of an empty-string path puts one File node with the empty
\* name and that entry's index at the top level, and leaves the nodes of the
\* other paths as they were.
C22_EmptyPathIsTopLevelFile ==
    [][(pc = "build_file_tree" /\ idx < Len(diffs) /\ idx' = idx + 1
            /\ diffs[idx + 1].new_path = <<>>) =>
           /\ \E e \in 1..Len(root') :
                  root'[e] = [key |-> <<>>, node |-> File(idx)]
           /\ \A e \in 1..Len(root) :
                  root[e].key /= <<>> => \E f \in 1..Len(root') : root'[f] = root[e]
           /\ \A i \in IndexSet(root) :
                  diffs[i + 1].new_path /= <<>> => i \in IndexSet(root')]_vars

\* ---------------------------------------------------------------- C23
RECURSIVE Shape(_)
\* The tree without the indexes its File nodes carry.
Shape(map) ==
    [k \in 1..Len(map) |->
        IF map[k].node.kind = "File" THEN [key |-> map[k].key, node |-> File(0)]
        ELSE [key |-> map[k].key,
              node |-> Directory(map[k].node.name, Shape(map[k].node.children))]]

TreePanelShown ==
    /\ pc = "rendered"
    /\ panel_mode = "Tree"
    /\ elements = render_file_panel(diffs, panel_mode, collapsed_dirs)

\* Elements i and j, i above j, are children of the same level: they have the
\* same indent and nothing between them has less.
Siblings(els, i, j) ==
    /\ i < j
    /\ els[i].indent = els[j].indent
    /\ \A k \in i..j : els[k].indent >= els[i].indent

C26_SelectionWithinDiffs ==
    /\ [](pc \in {"viewer", "rendered"} =>
              /\ IsNone(selected_index) <=> Len(diffs) = 0
              /\ IsSome(selected_index) => Unwrap(selected_index) < Len(diffs)
              /\ (pc = "viewer" /\ Len(diffs) > 0) => selected_index = Some(0))
    /\ [][selected_index' /= selected_index =>
              /\ pc = "rendered"
              /\ \E e \in 1..Len(elements) :
                     /\ elements[e].kind = "file-item"
                     /\ selected_index' = elements[e].diff_index
              /\ UNCHANGED <<diffs, view_mode, panel_mode, collapsed_dirs, panel_width>>]_vars

\* the second of two diffs was selected by a click on its item in the tree
C26_Witness ==
    /\ pc = "rendered"
    /\ Len(diffs) = 2
    /\ selected_index = Some(1)
    /\ panel_mode = "Tree"
    /\ \E e \in 1..Len(elements) : elements[e].kind = "dir"

\* ---------------------------------------------------------------- C27
\* C27: the directory headers of the panel have pairwise different collapse
\* keys (dir_path), so that a click on one toggles that directory only.
C27_DistinctCollapseKeys ==
    \A i, j \in 1..Len(elements) :
        (i < j /\ elements[i].kind = "dir" /\ elements[j].kind = "dir") =>
            elements[i].dir_path /= elements[j].dir_path

====
